---- MODULE Spec2Model ----
(***************************************************************************)
(* Model of the flatten command (copyTypeAsTypescriptType /                *)
(* generateFlattenedTypeDefinition) and of the tree-view localizer         *)
(* (getMeta) of ts-type-explorer.                                          *)
(*                                                                         *)
(* A text is a sequence of string pieces; Render concatenates the pieces   *)
(* into the string the code builds.  An async function runs atomically     *)
(* from one await to the next, so every action below is one such segment.  *)
(***************************************************************************)
EXTENDS Integers, Sequences, FiniteSets, TLC

VARIABLES world, cmd, tasks, seenRefs, order, messages, clipboard,
          iconsEnabled, iconColorsEnabled, readonlyEnabled, probe, metaResults

flattenVars == <<world, cmd, tasks, seenRefs, order, messages, clipboard>>
metaVars == <<iconsEnabled, iconColorsEnabled, readonlyEnabled, probe, metaResults>>
vars == <<world, cmd, tasks, seenRefs, order, messages, clipboard,
          iconsEnabled, iconColorsEnabled, readonlyEnabled, probe, metaResults>>

\* Largest number of generateFlattenedTypeDefinition calls one invocation may make.
MaxTasks == 8

\* The concurrent invocations of the command.
Invocations == {1, 2}

(***************************************************************************)
(* Localized nodes (LocalizedTypeInfo).  Undefined stands for a property   *)
(* that is absent; NoSymbol for an absent symbol, whose fields all read     *)
(* as undefined through info.symbol?.                                      *)
(***************************************************************************)
Undefined == "<undefined>"

NoSymbol ==
    [name |-> Undefined, anonymous |-> FALSE, property |-> FALSE,
     isArgument |-> FALSE, insideClassOrInterface |-> FALSE]

Symbol(name) == [NoSymbol EXCEPT !.name = name]

Base ==
    [kind |-> Undefined, _id |-> Undefined, primitiveKind |-> Undefined,
     symbol |-> NoSymbol, purpose |-> Undefined, name |-> Undefined,
     alias |-> Undefined, kindText |-> Undefined,
     optional |-> FALSE, rest |-> FALSE, readonly |-> FALSE, dimension |-> 0,
     hasValue |-> FALSE, num |-> 0, bool |-> FALSE, str |-> "",
     location |-> FALSE, locations |-> <<>>, children |-> <<>>, error |-> FALSE]

Prim(id, name, pk) ==
    [Base EXCEPT !.kind = "primitive", !._id = id, !.symbol = Symbol(name),
                 !.primitiveKind = pk]

Composite(kind, id, name, kids) ==
    [Base EXCEPT !.kind = kind, !._id = id, !.symbol = Symbol(name), !.children = kids]

Reference(id, name, hasLocation, locs) ==
    [Base EXCEPT !.kind = "reference", !._id = id, !.symbol = Symbol(name),
                 !.location = hasLocation, !.locations = locs]

ErrorMarker == [Base EXCEPT !.error = TRUE]

\* A JavaScript string used as a condition.
Truthy(str) == str # Undefined /\ str # ""

(***************************************************************************)
(* The input trees.  nodes[1] is the root the state manager holds;          *)
(* children are positions in nodes (what localizeChildren returns, in       *)
(* order); at maps a source location to the node getTypeTreeAtLocation and  *)
(* localize resolve it to, 0 when it cannot be resolved.                    *)
(***************************************************************************)
Worlds == <<
    \* 1: no type tree at the cursor
    [name |-> "None", nodes |-> <<>>, at |-> [l \in {"L1"} |-> 0]],
    \* 2: { a: string, b?: number }
    [name |-> "AB",
     nodes |-> << Composite("object", "t1", Undefined, <<2, 3>>),
                  Prim("t2", "a", "string"),
                  [Prim("t3", "b", "number") EXCEPT !.optional = TRUE] >>,
     at |-> [l \in {"L1"} |-> 0]],
    \* 3: type List = { next: List }
    [name |-> "List",
     nodes |-> << Composite("object", "t1", Undefined, <<2>>),
                  Composite("object", "t1", "next", <<2>>) >>,
     at |-> [l \in {"L1"} |-> 0]],
    \* 4: type Tree = { left: Tree; right: Tree }
    [name |-> "Tree",
     nodes |-> << Composite("object", "t1", Undefined, <<2, 3>>),
                  Composite("object", "t1", "left", <<2, 3>>),
                  Composite("object", "t1", "right", <<2, 3>>) >>,
     at |-> [l \in {"L1"} |-> 0]],
    \* 5: [ { x: S }, { y: S }, string ] with S = { back: <the tuple> }
    [name |-> "Pair",
     nodes |-> << Composite("tuple", "t1", Undefined, <<2, 3, 6>>),
                  Composite("object", "t2", Undefined, <<4>>),
                  Composite("object", "t3", Undefined, <<5>>),
                  Composite("object", "t4", "x", <<7>>),
                  Composite("object", "t4", "y", <<7>>),
                  Prim("t5", Undefined, "string"),
                  Composite("tuple", "t1", "back", <<2, 3, 6>>) >>,
     at |-> [l \in {"L1"} |-> 0]],
    \* 6: objects without localizable children
    [name |-> "Empty",
     nodes |-> << Composite("tuple", "t1", Undefined, <<2, 3, 4>>),
                  Composite("object", "t2", Undefined, <<>>),
                  Composite("object", "t3", Undefined, <<6, 6>>),
                  Composite("object", "t4", Undefined, <<6, 5>>),
                  Prim("t5", Undefined, "string"),
                  ErrorMarker >>,
     at |-> [l \in {"L1"} |-> 0]],
    \* 7: references
    [name |-> "Refs",
     nodes |-> << Composite("union", "t1", Undefined, <<2, 3, 4>>),
                  Reference("t2", Undefined, FALSE, <<"L2">>),
                  Reference("t3", Undefined, TRUE, <<"L1">>),
                  Reference("t4", Undefined, TRUE, <<"L2">>),
                  Prim("t5", Undefined, "boolean") >>,
     at |-> [l \in {"L1", "L2"} |-> IF l = "L1" THEN 5 ELSE 0]],
    \* 8: only an unresolvable reference
    [name |-> "Dangling",
     nodes |-> << Reference("t1", Undefined, FALSE, <<"L1">>) >>,
     at |-> [l \in {"L1"} |-> 0]],
    \* 9: literals and an unhandled kind
    [name |-> "Lits",
     nodes |-> << Composite("intersection", "t1", Undefined, <<2, 3, 4, 5, 6>>),
                  [Base EXCEPT !.kind = "string_literal", !._id = "t2",
                               !.hasValue = TRUE, !.str = "x"],
                  [Base EXCEPT !.kind = "number_literal", !._id = "t3",
                               !.hasValue = TRUE, !.num = 42],
                  [Base EXCEPT !.kind = "boolean_literal", !._id = "t4",
                               !.hasValue = TRUE, !.bool = TRUE],
                  [Base EXCEPT !.kind = "conditional", !._id = "t5"],
                  Prim("t6", Undefined, Undefined) >>,
     at |-> [l \in {"L1"} |-> 0]],
    \* 10: a literal node that carries no value
    [name |-> "NoValue",
     nodes |-> << Composite("union", "t1", Undefined, <<2, 3, 4>>),
                  Prim("t2", Undefined, "string"),
                  [Base EXCEPT !.kind = "number_literal", !._id = "t3"],
                  [Base EXCEPT !.kind = "string_literal", !._id = "t4"] >>,
     at |-> [l \in {"L1"} |-> 0]],
    \* 11: { a: string; b: string } where both properties carry the same _id
    [name |-> "Twice",
     nodes |-> << Composite("object", "t1", Undefined, <<2, 3>>),
                  Prim("t2", "a", "string"),
                  Prim("t2", "b", "string") >>,
     at |-> [l \in {"L1"} |-> 0]],
    \* 12: arrays
    [name |-> "Arrs",
     nodes |-> << Composite("tuple", "t1", Undefined, <<2, 3, 5>>),
                  Composite("array", "t2", Undefined, <<4, 5>>),
                  Composite("array", "t3", Undefined, <<>>),
                  Composite("union", "t4", Undefined, <<5, 6>>),
                  ErrorMarker,
                  Prim(Undefined, Undefined, "number") >>,
     at |-> [l \in {"L1"} |-> 0]]
>>

W == Worlds[world]
Node(n) == W.nodes[n]


HasTypeTree == Len(W.nodes) > 0

\* resolver.localizeChildren(info): the children, in order.
localizeChildren(info) == [i \in 1..Len(info.children) |-> Node(info.children[i])]

\* resolver.localize(await getTypeTreeAtLocation(loc)): a node position, 0 for undefined.
localizeAtLocation(loc) == W.at[loc]

(***************************************************************************)
(* Texts                                                                   *)
(***************************************************************************)
CircularReference == "any // Circular reference"
FailedToResolve == "any // Failed to resolve reference"
Null == <<"<null>">>

RECURSIVE Render(_)
Render(text) == IF text = <<>> THEN "" ELSE Head(text) \o Render(Tail(text))

\* Array.prototype.join
RECURSIVE join(_, _)
join(parts, sep) ==
    IF Len(parts) = 0 THEN <<>>
    ELSE IF Len(parts) = 1 THEN parts[1]
    ELSE parts[1] \o <<sep>> \o join(Tail(parts), sep)

\* properties.filter(p => p !== null)
validProperties(properties) == SelectSeq(properties, LAMBDA p : p # Null)

\* `${propertyName}${optional}: ${propertyType}`
Property(child, propertyType) ==
    <<IF child.symbol.name = Undefined THEN "unknown" ELSE child.symbol.name>>
        \o (IF child.optional THEN <<"?">> ELSE <<>>)
        \o <<": ">> \o propertyType

\* `{ ${validProperties.join('; ')} }`
ObjectText(properties) == <<"{ ">> \o join(validProperties(properties), "; ") \o <<" }">>

ArrayText(elementType) == elementType \o <<"[]">>
TupleText(types) == <<"[">> \o join(types, ", ") \o <<"]">>
UnionText(types) == join(types, " | ")
IntersectionText(types) == join(types, " & ")

\* `"${info.value}"`: an absent value is interpolated as the word undefined.
StringLiteralText(info) == <<"\"", IF info.hasValue THEN info.str ELSE "undefined", "\"">>
NumberLiteralText(info) == <<ToString(info.num)>>
BooleanLiteralText(info) == <<IF info.bool THEN "true" ELSE "false">>

FanKinds == {"object", "tuple", "union", "intersection"}
ChildKinds == FanKinds \cup {"array"}

(***************************************************************************)
(* One invocation's state: s.tasks are its calls of                         *)
(* generateFlattenedTypeDefinition, s.seen its seenRefs set, s.order the    *)
(* calls in the order their promises settled.                               *)
(***************************************************************************)
NewTask(n, parent, slot, pc, result) ==
    [node |-> n, parent |-> parent, slot |-> slot, pc |-> pc,
     result |-> result, parts |-> <<>>]

\* The guard as a guard of reference nodes only.
AlreadySeenReferenceOnly(seen, info) ==
    info.kind = "reference" /\ Truthy(info._id) /\ info._id \in seen

\* if (info._id && seenRefs.has(info._id))
AlreadySeen(seen, info) == Truthy(info._id) /\ info._id \in seen

\* The id is recorded for reference nodes only.
MarkSeenReferenceOnly(seen, info) ==
    IF info.kind = "reference" /\ Truthy(info._id) THEN seen \cup {info._id} ELSE seen

\* if (info._id) seenRefs.add(info._id)
MarkSeen(seen, info) == IF Truthy(info._id) THEN seen \cup {info._id} ELSE seen

\* if (info.kind === 'reference' && info.location)
IsResolvableReference(info) == info.kind = "reference" /\ info.location

\* The synchronous part of one call, up to its first await or its return.
Enter(info) ==
    IF IsResolvableReference(info) THEN [pc |-> "resolve", result |-> <<>>]
    ELSE IF info.kind = "primitive"
        THEN [pc |-> "done",
              result |-> <<IF info.primitiveKind = Undefined THEN "any" ELSE info.primitiveKind>>]
    ELSE IF info.kind \in ChildKinds THEN [pc |-> "localizeChildren", result |-> <<>>]
    ELSE IF info.kind = "string_literal"
        THEN [pc |-> "done", result |-> StringLiteralText(info)]
    ELSE IF info.kind \in {"number_literal", "boolean_literal"}
        THEN IF ~info.hasValue THEN [pc |-> "rejected", result |-> <<>>]
             ELSE [pc |-> "done",
                   result |-> IF info.kind = "number_literal" THEN NumberLiteralText(info)
                              ELSE BooleanLiteralText(info)]
    ELSE [pc |-> "done", result |-> <<"any">>]

Call(s, n, parent, slot) ==
    LET info == Node(n)
        t == Len(s.tasks) + 1
    IN  IF AlreadySeen(s.seen, info)
        THEN [s EXCEPT !.tasks = Append(@, NewTask(n, parent, slot, "done", <<CircularReference>>)),
                       !.order = Append(@, t)]
        ELSE LET e == Enter(info)
             IN  [s EXCEPT !.tasks = Append(@, NewTask(n, parent, slot, e.pc, e.result)),
                           !.seen = MarkSeen(@, info),
                           !.order = IF e.pc \in {"done", "rejected"} THEN Append(@, t) ELSE @]

\* children.map(child => generateFlattenedTypeDefinition(child, ...)): the calls
\* start in child order; the object branch starts none for an error marker.
\* Each call runs to its first await before the next one starts, so the state
\* one call leaves (called) is the state the next call sees.
RECURSIVE MapChildren(_, _, _, _)
MapChildren(s, parent, skipErrors, i) ==
    LET kids == Node(s.tasks[parent].node).children
    IN  IF i > Len(kids) THEN s
        ELSE IF skipErrors /\ Node(kids[i]).error
            THEN MapChildren(s, parent, skipErrors, i + 1)
        ELSE CHOOSE mapped \in {MapChildren(called, parent, skipErrors, i + 1) :
                                  called \in {Call(s, kids[i], parent, i)}} : TRUE

KidsOf(ts, t) == {k \in 1..Len(ts) : ts[k].parent = t}
KidAt(ts, t, i) == CHOOSE k \in KidsOf(ts, t) : ts[k].slot = i
HasKidAt(ts, t, i) == \E k \in KidsOf(ts, t) : ts[k].slot = i


\* One set shared by every invocation.
SharedSeenRefs(all, inv) == UNION {all[i] : i \in Invocations}

\* seenRefs: Set<string> = new Set(): the set a top-level call creates for itself.
OwnSeenRefs(all, inv) == all[inv]

S(inv) == [tasks |-> tasks[inv], seen |-> OwnSeenRefs(seenRefs, inv), order |-> order[inv]]

Store(inv, s) ==
    /\ tasks' = [tasks EXCEPT ![inv] = s.tasks]
    /\ seenRefs' = [seenRefs EXCEPT ![inv] = s.seen]
    /\ order' = [order EXCEPT ![inv] = s.order]

Settled(s, t, pc, result, parts) ==
    [s EXCEPT !.tasks[t].pc = pc, !.tasks[t].result = result, !.tasks[t].parts = parts,
              !.order = Append(@, t)]

\* The value of the i-th promise handed to Promise.all by call t.
ArrowValue(ts, t, i) ==
    LET child == Node(Node(ts[t].node).children[i])
    IN  IF Node(ts[t].node).kind = "object"
        THEN IF child.error THEN Null ELSE Property(child, ts[KidAt(ts, t, i)].result)
        ELSE ts[KidAt(ts, t, i)].result

\* The values in the order in which the promises settled.
PromiseAllByCompletion(ts, ord, t) ==
    LET n == Len(Node(ts[t].node).children)
        immediate == SelectSeq([i \in 1..n |-> i], LAMBDA i : ~HasKidAt(ts, t, i))
        settled == SelectSeq(ord, LAMBDA k : ts[k].parent = t)
        slots == immediate \o [p \in 1..Len(settled) |-> ts[settled[p]].slot]
    IN  [i \in 1..n |-> ArrowValue(ts, t, slots[i])]

\* Promise.all: the values by index, whatever the order of completion.
PromiseAll(ts, ord, t) ==
    [i \in 1..Len(Node(ts[t].node).children) |-> ArrowValue(ts, t, i)]

\* The text a call returns once what it awaited has been fulfilled.
Assemble(info, values) ==
    CASE info.kind = "object" -> ObjectText(values)
      [] info.kind = "tuple" -> TupleText(values)
      [] info.kind = "union" -> UnionText(values)
      [] info.kind = "intersection" -> IntersectionText(values)

(***************************************************************************)
(* copyTypeAsTypescriptType                                                *)
(***************************************************************************)
NoTypeInformation == "No type information available."
CopiedMessage == "Flattened type copied to clipboard!"
FailedMessage == "Failed to copy type information."

\* The command starts: no tree, or await typeInfoResolver.localize(typeInfo).
Invoke(inv) ==
    /\ cmd[inv] = "idle"
    /\ IF HasTypeTree
       THEN /\ cmd' = [cmd EXCEPT ![inv] = "localize"]
            /\ UNCHANGED messages
       ELSE /\ cmd' = [cmd EXCEPT ![inv] = "noinfo"]
            /\ messages' = [messages EXCEPT ![inv] = Append(@, NoTypeInformation)]
    /\ UNCHANGED <<world, tasks, seenRefs, order, clipboard>>
    /\ UNCHANGED metaVars

\* localize returned: the top-level call of generateFlattenedTypeDefinition.
StartFlatten(inv) ==
    /\ cmd[inv] = "localize"
    /\ cmd' = [cmd EXCEPT ![inv] = "flatten"]
    /\ Store(inv, Call(S(inv), 1, 0, 0))
    /\ UNCHANGED <<world, messages, clipboard>>
    /\ UNCHANGED metaVars

\* await resolver.localizeChildren(info) returned in call t.
LocalizeChildrenReturns(inv, t) ==
    LET s == S(inv)
        info == Node(s.tasks[t].node)
        children == localizeChildren(info)
    IN  /\ cmd[inv] = "flatten"
        /\ s.tasks[t].pc = "localizeChildren"
        /\ Len(s.tasks) + Len(children) <= MaxTasks
        /\ IF Len(children) = 0 /\ info.kind = "object"
               THEN Store(inv, Settled(s, t, "done", <<"{}">>, <<>>))
           ELSE IF Len(children) = 0 /\ info.kind = "array"
               THEN Store(inv, Settled(s, t, "done", <<"any[]">>, <<>>))
           ELSE IF info.kind = "array"
               THEN Store(inv, Call([s EXCEPT !.tasks[t].pc = "await"],
                                    info.children[1], t, 1))
           ELSE Store(inv, MapChildren([s EXCEPT !.tasks[t].pc = "await"],
                                       t, info.kind = "object", 1))
        /\ UNCHANGED <<world, cmd, messages, clipboard>>
        /\ UNCHANGED metaVars

\* await resolver.localize(await getTypeTreeAtLocation(info.locations[0])) returned.
ResolveReturns(inv, t) ==
    LET s == S(inv)
        info == Node(s.tasks[t].node)
        resolvedTypeInfo == localizeAtLocation(info.locations[1])
    IN  /\ cmd[inv] = "flatten"
        /\ s.tasks[t].pc = "resolve"
        /\ Len(s.tasks) < MaxTasks
        /\ IF resolvedTypeInfo # 0
               THEN Store(inv, Call([s EXCEPT !.tasks[t].pc = "await"],
                                    resolvedTypeInfo, t, 1))
               ELSE Store(inv, Settled(s, t, "done", <<FailedToResolve>>, <<>>))
        /\ UNCHANGED <<world, cmd, messages, clipboard>>
        /\ UNCHANGED metaVars

\* What call t awaited has settled: it rejects with the first rejection, or
\* builds its text when every awaited call is fulfilled.
Settle(inv, t) ==
    LET s == S(inv)
        ts == s.tasks
        info == Node(ts[t].node)
    IN  /\ cmd[inv] = "flatten"
        /\ ts[t].pc = "await"
        /\ \/ /\ \E k \in KidsOf(ts, t) : ts[k].pc = "rejected"
              /\ Store(inv, Settled(s, t, "rejected", <<>>, <<>>))
           \/ /\ \A k \in KidsOf(ts, t) : ts[k].pc = "done"
              /\ IF info.kind \in FanKinds
                     THEN LET values == PromiseAll(ts, s.order, t)
                          IN  Store(inv, Settled(s, t, "done", Assemble(info, values), values))
                 ELSE IF info.kind = "array"
                     THEN Store(inv, Settled(s, t, "done",
                                             ArrayText(ts[KidAt(ts, t, 1)].result), <<>>))
                 ELSE Store(inv, Settled(s, t, "done", ts[KidAt(ts, t, 1)].result, <<>>))
        /\ UNCHANGED <<world, cmd, messages, clipboard>>
        /\ UNCHANGED metaVars

\* formatAndCopyToClipboard(`type ${typeInfo.symbolMeta.name} = ${flattenedType}`)
Copy(inv) ==
    /\ cmd[inv] = "flatten"
    /\ tasks[inv][1].pc = "done"
    /\ clipboard' = <<"type ", W.name, " = ">> \o tasks[inv][1].result
    /\ messages' = [messages EXCEPT ![inv] = Append(@, CopiedMessage)]
    /\ cmd' = [cmd EXCEPT ![inv] = "copied"]
    /\ UNCHANGED <<world, tasks, seenRefs, order>>
    /\ UNCHANGED metaVars

\* catch (error): the flatten rejected.
Catch(inv) ==
    /\ cmd[inv] = "flatten"
    /\ tasks[inv][1].pc = "rejected"
    /\ messages' = [messages EXCEPT ![inv] = Append(@, FailedMessage)]
    /\ cmd' = [cmd EXCEPT ![inv] = "failed"]
    /\ UNCHANGED <<world, tasks, seenRefs, order, clipboard>>
    /\ UNCHANGED metaVars

(***************************************************************************)
(* typeTreeViewLocalizer: getMeta                                          *)
(***************************************************************************)
\* The nodes getMeta is asked about.
MetaInputs == <<
    [Prim("m1", "a", "string") EXCEPT !.kindText = "string", !.optional = TRUE,
                                      !.symbol.property = TRUE],
    [Prim("m2", "n", "never") EXCEPT !.kindText = "never", !.rest = TRUE,
                                     !.symbol.isArgument = TRUE],
    [Prim("m3", "n", "never") EXCEPT !.kindText = "never", !.symbol.anonymous = TRUE],
    [Prim("m4", "p", Undefined) EXCEPT !.kindText = "any"],
    [Prim("m5", "q", "float") EXCEPT !.kindText = "float", !.readonly = TRUE],
    [Composite("max_depth", "m6", "deep", <<1>>) EXCEPT !.kindText = "..."],
    [Composite("object", "m7", "o", <<1, 2>>) EXCEPT
        !.kindText = "object", !.alias = "Foo", !.readonly = TRUE, !.dimension = 1,
        !.locations = <<"L1">>],
    [Composite("function", "m8", "C", <<1>>) EXCEPT
        !.kindText = "function", !.purpose = "class_constructor"],
    [Composite("object", "m9", "Props", <<1>>) EXCEPT
        !.kindText = "object", !.purpose = "jsx_properties", !.name = ""],
    [Composite("function", "m10", "m", <<>>) EXCEPT
        !.kindText = "function", !.symbol.insideClassOrInterface = TRUE, !.name = "run"]
>>

Depths == {1, 2}

\* localizePurpose of @ts-type-explorer/api.
localizePurpose(purpose) ==
    IF purpose = "class_constructor" THEN "constructor" ELSE purpose

RECURSIVE repeat(_, _)
repeat(str, count) == IF count = 0 THEN "" ELSE str \o repeat(str, count - 1)

addDecorations(text, rest, optional, dimension) ==
    LET t1 == text \o repeat("[]", dimension)
        t2 == IF optional THEN t1 \o "?" ELSE t1
    IN  IF rest THEN "..." \o t2 ELSE t2

getLabelByName(info) == info.name

getLabelByPurpose(info) ==
    IF Truthy(info.purpose) THEN "<" \o localizePurpose(info.purpose) \o ">" ELSE Undefined

getLabelOverride(info) ==
    IF getLabelByName(info) # Undefined THEN getLabelByName(info) ELSE getLabelByPurpose(info)

getLabelBase(info) ==
    IF getLabelOverride(info) # Undefined THEN getLabelOverride(info)
    ELSE IF ~info.symbol.anonymous
        THEN (IF info.symbol.name # Undefined THEN info.symbol.name ELSE "")
    ELSE ""

getLabel(info) ==
    LET base == getLabelBase(info)
    IN  IF ~Truthy(base) THEN base
        ELSE addDecorations(base, info.rest, info.optional, 0)

\* readonly read from the icons setting.
getDescriptionPartsOfIconsSetting(info) ==
    IF ~Truthy(info.kindText)
    THEN [alias |-> Undefined, base |-> Undefined, readonly |-> FALSE]
    ELSE LET nameOverridden == Truthy(getLabelOverride(info))
             aliasDescriptionBase ==
                 IF info.alias # Undefined THEN info.alias
                 ELSE IF nameOverridden /\ info.purpose # "jsx_properties"
                     THEN info.symbol.name
                 ELSE Undefined
         IN  [alias |-> IF Truthy(aliasDescriptionBase)
                            THEN addDecorations(aliasDescriptionBase, FALSE, FALSE, info.dimension)
                            ELSE aliasDescriptionBase,
              base |-> addDecorations(info.kindText, FALSE, FALSE, info.dimension),
              readonly |-> info.readonly /\ iconsEnabled]

getDescriptionParts(info) ==
    IF ~Truthy(info.kindText)
    THEN [alias |-> Undefined, base |-> Undefined, readonly |-> FALSE]
    ELSE LET nameOverridden == Truthy(getLabelOverride(info))
             aliasDescriptionBase ==
                 IF info.alias # Undefined THEN info.alias
                 ELSE IF nameOverridden /\ info.purpose # "jsx_properties"
                     THEN info.symbol.name
                 ELSE Undefined
         IN  [alias |-> IF Truthy(aliasDescriptionBase)
                            THEN addDecorations(aliasDescriptionBase, FALSE, FALSE, info.dimension)
                            ELSE aliasDescriptionBase,
              base |-> addDecorations(info.kindText, FALSE, FALSE, info.dimension),
              readonly |-> info.readonly /\ readonlyEnabled]

descriptionPartsToString(parts) ==
    IF ~Truthy(parts.base) THEN Undefined
    ELSE LET result == IF Truthy(parts.alias)
                           THEN parts.alias \o " (" \o parts.base \o ")"
                           ELSE parts.base
         IN  IF parts.readonly THEN "readonly " \o result ELSE result

getDescription(info) == descriptionPartsToString(getDescriptionParts(info))

getCollapsibleState(info, depth) ==
    IF Len(info.children) = 0 THEN "None"
    ELSE IF info.purpose = "jsx_properties" THEN "Expanded"
    ELSE IF depth = 1 THEN "Expanded" ELSE "Collapsed"

getContextValue(info) == IF Len(info.locations) > 0 THEN "declared" ELSE Undefined

\* The outcome of a throw statement.
Thrown == <<"<thrown>">>

PrimitiveIcon(primitiveKind) ==
    CASE primitiveKind \in {"essymbol", "unique_symbol", "string"} -> <<"symbol-string">>
      [] primitiveKind \in {"bigint", "number"} -> <<"symbol-numeric">>
      [] primitiveKind = "boolean" -> <<"symbol-boolean">>
      [] primitiveKind \in {"unknown", "any", "void", "undefined", "null"} -> <<"symbol-null">>
      [] primitiveKind = "never" -> <<"error", "symbolIcon.nullForeground">>
      [] OTHER -> Thrown

KindIcon(info) ==
    CASE info.kind = "primitive" -> PrimitiveIcon(info.primitiveKind)
      [] info.kind = "object" -> <<"symbol-object">>
      [] info.kind = "type_parameter" -> <<"symbol-type-parameter">>
      [] info.kind \in {"string_mapping", "template_literal", "string_literal"} -> <<"symbol-text">>
      [] info.kind \in {"bigint_literal", "number_literal"} -> <<"symbol-number">>
      [] info.kind = "boolean_literal" -> <<"symbol-boolean">>
      [] info.kind = "enum" -> <<"symbol-enum">>
      [] info.kind = "enum_literal" -> <<"symbol-enum-member">>
      [] info.kind \in {"tuple", "array"} -> <<"symbol-array">>
      [] info.kind = "intrinsic" -> <<"symbol-keyword">>
      [] info.kind = "conditional" -> <<"question", "symbolIcon.keywordForeground">>
      [] info.kind \in {"substitution", "non_primitive"} -> <<"symbol-misc">>
      [] info.kind \in {"union", "intersection"} -> <<"symbol-struct">>
      [] info.kind \in {"signature", "function"} ->
            IF info.symbol.insideClassOrInterface THEN <<"symbol-method">>
            ELSE <<"symbol-function">>
      [] info.kind = "interface" -> <<"symbol-interface">>
      [] info.kind = "namespace" -> <<"symbol-namespace">>
      [] info.kind = "module" -> <<"symbol-module">>
      [] info.kind = "class" -> <<"symbol-class">>
      [] info.kind \in {"index_info", "indexed_access", "index"} ->
            <<"key", "symbolIcon.keyForeground">>
      [] OTHER -> <<"symbol-misc">>

\* _getIcon
GetIconIds(info) ==
    IF info.symbol.property THEN <<"symbol-field">>
    ELSE IF info.symbol.isArgument THEN <<"symbol-property">>
    ELSE IF info.purpose = "class_constructor" THEN <<"symbol-constructor">>
    ELSE KindIcon(info)

NoIcon == [id |-> Undefined, color |-> Undefined]
ThrownIcon == [id |-> "<thrown>", color |-> Undefined]

\* getIcon: both destructurings, [id] and [colorId], take the first element.
getIcon(info) ==
    IF ~iconsEnabled THEN NoIcon
    ELSE LET iconIds == GetIconIds(info)
         IN  IF iconIds = Thrown THEN ThrownIcon
             ELSE [id |-> iconIds[1],
                   color |-> IF ~iconColorsEnabled THEN "icon.foreground" ELSE iconIds[1]]

getMeta(info, depth) ==
    IF getIcon(info) = ThrownIcon
    THEN [threw |-> TRUE, label |-> Undefined, description |-> Undefined,
          contextValue |-> Undefined, icon |-> NoIcon, collapsibleState |-> Undefined]
    ELSE [threw |-> FALSE,
          label |-> getLabel(info),
          description |-> getDescription(info),
          contextValue |-> getContextValue(info),
          icon |-> getIcon(info),
          collapsibleState |-> getCollapsibleState(info, depth)]

\* iconsEnabled.toggle
ToggleIconsEnabled ==
    /\ iconsEnabled' = ~iconsEnabled
    /\ UNCHANGED <<iconColorsEnabled, readonlyEnabled, probe, metaResults>>
    /\ UNCHANGED flattenVars

\* iconColorsEnabled.toggle
ToggleIconColorsEnabled ==
    /\ iconColorsEnabled' = ~iconColorsEnabled
    /\ UNCHANGED <<iconsEnabled, readonlyEnabled, probe, metaResults>>
    /\ UNCHANGED flattenVars

\* The view asks for the meta of the probed node at the probed depth.
GetMetaCall ==
    /\ metaResults' = metaResults \cup
          {[iconsEnabled |-> iconsEnabled, iconColorsEnabled |-> iconColorsEnabled,
            readonlyEnabled |-> readonlyEnabled,
            meta |-> getMeta(MetaInputs[probe[1]], probe[2])]}
    /\ UNCHANGED <<iconsEnabled, iconColorsEnabled, readonlyEnabled, probe>>
    /\ UNCHANGED flattenVars

MetaInit ==
    /\ iconsEnabled = TRUE
    /\ iconColorsEnabled = TRUE
    /\ readonlyEnabled = TRUE
    /\ probe = <<1, 1>>
    /\ metaResults = {}

Init ==
    /\ world \in DOMAIN Worlds
    /\ cmd = [inv \in Invocations |-> "idle"]
    /\ tasks = [inv \in Invocations |-> <<>>]
    /\ seenRefs = [inv \in Invocations |-> {}]
    /\ order = [inv \in Invocations |-> <<>>]
    /\ messages = [inv \in Invocations |-> <<>>]
    /\ clipboard = <<>>
    /\ MetaInit

Next ==
    \/ \E inv \in Invocations : Invoke(inv)
    \/ \E inv \in Invocations : StartFlatten(inv)
    \/ \E inv \in Invocations : \E t \in 1..Len(tasks[inv]) : LocalizeChildrenReturns(inv, t)
    \/ \E inv \in Invocations : \E t \in 1..Len(tasks[inv]) : ResolveReturns(inv, t)
    \/ \E inv \in Invocations : \E t \in 1..Len(tasks[inv]) : Settle(inv, t)
    \/ \E inv \in Invocations : Copy(inv)
    \/ \E inv \in Invocations : Catch(inv)

Spec == Init /\ [][Next]_vars


FlattenIdle ==
    /\ world = 1
    /\ cmd = [inv \in Invocations |-> "idle"]
    /\ tasks = [inv \in Invocations |-> <<>>]
    /\ seenRefs = [inv \in Invocations |-> {}]
    /\ order = [inv \in Invocations |-> <<>>]
    /\ messages = [inv \in Invocations |-> <<>>]
    /\ clipboard = <<>>

InitMeta ==
    /\ FlattenIdle
    /\ iconsEnabled \in BOOLEAN
    /\ iconColorsEnabled \in BOOLEAN
    /\ readonlyEnabled \in BOOLEAN
    /\ probe \in (DOMAIN MetaInputs) \X Depths
    /\ metaResults = {}

NextMeta ==
    \/ ToggleIconsEnabled
    \/ ToggleIconColorsEnabled
    \/ GetMetaCall

SpecMeta == InitMeta /\ [][NextMeta]_vars


\* The event loop runs every continuation whose awaited promise has settled,
\* and the resolver answers every request.
Progress ==
    \/ \E inv \in Invocations : StartFlatten(inv)
    \/ \E inv \in Invocations : \E t \in 1..Len(tasks[inv]) : LocalizeChildrenReturns(inv, t)
    \/ \E inv \in Invocations : \E t \in 1..Len(tasks[inv]) : ResolveReturns(inv, t)
    \/ \E inv \in Invocations : \E t \in 1..Len(tasks[inv]) : Settle(inv, t)
    \/ \E inv \in Invocations : Copy(inv)
    \/ \E inv \in Invocations : Catch(inv)

FairSpec == Init /\ [][Next]_vars /\ WF_vars(Progress)

(***************************************************************************)
(* Notions the properties are stated with                                  *)
(***************************************************************************)
ChildrenOf(n) == {Node(n).children[i] : i \in 1..Len(Node(n).children)}

RECURSIVE Closure(_)
Closure(ns) ==
    LET more == ns \cup UNION {ChildrenOf(n) : n \in ns}
    IN  IF more = ns THEN ns ELSE Closure(more)

Descendants(n) == Closure(ChildrenOf(n))
Reachable == {1} \cup Descendants(1)

\* Some node's children lead back to a node with the same _id.
Cyclic ==
    /\ HasTypeTree
    /\ \E n \in Reachable : \E m \in Descendants(n) :
          Truthy(Node(n)._id) /\ Node(m)._id = Node(n)._id

Acyclic ==
    /\ HasTypeTree
    /\ ~Cyclic
    /\ \A n \in Reachable : n \notin Descendants(n)

RECURSIVE Count(_, _)
Count(text, piece) ==
    IF text = <<>> THEN 0
    ELSE (IF Head(text) = piece THEN 1 ELSE 0) + Count(Tail(text), piece)

IdOf(ts, k) == Node(ts[k].node)._id

\* The calls that reach an _id an earlier call of the invocation has reached.
ReEntries(ts) ==
    {k \in 1..Len(ts) : Truthy(IdOf(ts, k)) /\ \E j \in 1..(k - 1) : IdOf(ts, j) = IdOf(ts, k)}

RootDone(inv) == cmd[inv] \in {"flatten", "copied"} /\ tasks[inv][1].pc = "done"
Flattened(inv) == tasks[inv][1].result

\* The text at slot i of its parent that a call answered with the sentinel yields.
SentinelEntry(ts, k) ==
    IF Node(ts[ts[k].parent].node).kind = "object"
    THEN Property(Node(ts[k].node), <<CircularReference>>)
    ELSE <<CircularReference>>

C1_Sentinels ==
    \A inv \in Invocations :
        LET ts == tasks[inv]
        IN  /\ \A k \in ReEntries(ts) :
                  /\ ts[k].pc = "done" /\ ts[k].result = <<CircularReference>>
                  /\ KidsOf(ts, k) = {}
                  /\ (ts[ts[k].parent].pc = "done" /\ Node(ts[ts[k].parent].node).kind \in FanKinds)
                        => ts[ts[k].parent].parts[ts[k].slot] = SentinelEntry(ts, k)
            /\ (Cyclic /\ RootDone(inv)) =>
                  /\ Count(Flattened(inv), CircularReference) = Cardinality(ReEntries(ts))
                  /\ Count(Flattened(inv), CircularReference) >= 1

Assembled(ts, t) ==
    /\ ts[t].pc = "done"
    /\ t \notin ReEntries(ts)
    /\ Node(ts[t].node).kind \in FanKinds
    /\ ~(Node(ts[t].node).kind = "object" /\ Len(Node(ts[t].node).children) = 0)

PositionIn(ord, k) == CHOOSE p \in 1..Len(ord) : ord[p] = k

\* C2: a parent that fans out builds its text only once every child call has
\* settled, and entry i of what Promise.all hands it is the flattening of the
\* i-th child of localizeChildren, whatever the order of completion.
C2_IndexOrder ==
    \A inv \in Invocations :
        LET ts == tasks[inv]
        IN  \A t \in 1..Len(ts) :
                Assembled(ts, t) =>
                    LET info == Node(ts[t].node)
                    IN  /\ \A k \in KidsOf(ts, t) : ts[k].pc = "done"
                        /\ Len(ts[t].parts) = Len(info.children)
                        /\ \A i \in 1..Len(info.children) :
                              IF info.kind = "object" /\ Node(info.children[i]).error
                              THEN ts[t].parts[i] = Null
                              ELSE /\ HasKidAt(ts, t, i)
                                   /\ ts[KidAt(ts, t, i)].node = info.children[i]
                                   /\ ts[t].parts[i] =
                                         IF info.kind = "object"
                                         THEN Property(Node(info.children[i]),
                                                       ts[KidAt(ts, t, i)].result)
                                         ELSE ts[KidAt(ts, t, i)].result
                        /\ ts[t].result = Assemble(info, ts[t].parts)

\* A parent was assembled whose later child had settled before an earlier one.
C2_Witness ==
    \E inv \in Invocations :
        \E t \in 1..Len(tasks[inv]) :
            /\ Assembled(tasks[inv], t)
            /\ \E j, k \in KidsOf(tasks[inv], t) :
                  /\ tasks[inv][j].slot < tasks[inv][k].slot
                  /\ tasks[inv][j].result # tasks[inv][k].result
                  /\ PositionIn(order[inv], k) < PositionIn(order[inv], j)

NonErrorSlots(info) ==
    SelectSeq([i \in 1..Len(info.children) |-> i],
              LAMBDA i : ~Node(info.children[i]).error)

\* C3: an object without localizable children (none, or error markers only)
\* flattens to exactly `{}`; otherwise to `{ ` the `name?: Type` entries of the
\* non-error children in child order joined by `; ` and ` }`.
C3_ObjectText ==
    \A inv \in Invocations :
        LET ts == tasks[inv]
        IN  \A t \in 1..Len(ts) :
                (ts[t].pc = "done" /\ t \notin ReEntries(ts) /\ Node(ts[t].node).kind = "object") =>
                    LET info == Node(ts[t].node)
                        slots == NonErrorSlots(info)
                        entries == [p \in 1..Len(slots) |->
                                       Property(Node(info.children[slots[p]]),
                                                ts[KidAt(ts, t, slots[p])].result)]
                    IN  IF Len(slots) = 0 THEN Render(ts[t].result) = "{}"
                        ELSE Render(ts[t].result) = "{ " \o Render(join(entries, "; ")) \o " }"

\* C4: a reference node is resolved through locations and the resolved node is
\* flattened in its place; an unresolvable one yields
\* `any // Failed to resolve reference`.
C4_Reference ==
    \A inv \in Invocations :
        LET ts == tasks[inv]
        IN  \A t \in 1..Len(ts) :
                (/\ ts[t].pc = "done" /\ t \notin ReEntries(ts)
                 /\ Node(ts[t].node).kind = "reference"
                 /\ Len(Node(ts[t].node).locations) > 0) =>
                    LET resolved == localizeAtLocation(Node(ts[t].node).locations[1])
                    IN  IF resolved = 0
                        THEN Count(ts[t].result, FailedToResolve) = 1
                        ELSE /\ HasKidAt(ts, t, 1)
                             /\ ts[KidAt(ts, t, 1)].node = resolved
                             /\ ts[t].result = ts[KidAt(ts, t, 1)].result

\* C5: the command fails only when the root type is unavailable; no call of
\* generateFlattenedTypeDefinition rejects because of a nested node.
C5_OnlyRootFailure ==
    \A inv \in Invocations :
        /\ cmd[inv] # "failed"
        /\ \A t \in 1..Len(tasks[inv]) : tasks[inv][t].pc # "rejected"
        /\ \A m \in 1..Len(messages[inv]) :
              messages[inv][m] # CopiedMessage => ~HasTypeTree

CallShape(ts) == [k \in 1..Len(ts) |-> <<ts[k].node, ts[k].parent, ts[k].slot>>]

\* C6: each invocation owns its visited-set: the set of an invocation holds
\* the ids its own calls reached and nothing else, its top-level call is never
\* answered with the circular sentinel, and two invocations that made the same
\* calls in the same order return the same text however they interleaved.
C6_OwnVisitedSet ==
    /\ \A inv \in Invocations :
          /\ seenRefs[inv] =
                {id \in {IdOf(tasks[inv], k) : k \in 1..Len(tasks[inv])} : Truthy(id)}
          /\ Len(tasks[inv]) > 0 => tasks[inv][1].result # <<CircularReference>>
    /\ \A i, j \in Invocations :
          (RootDone(i) /\ RootDone(j) /\ CallShape(tasks[i]) = CallShape(tasks[j]))
              => Flattened(i) = Flattened(j)

\* Both invocations are in flight and have visited different sets of ids.
C6_Witness ==
    /\ \A inv \in Invocations :
          /\ cmd[inv] = "flatten" /\ seenRefs[inv] # {}
          /\ \E t \in 1..Len(tasks[inv]) : tasks[inv][t].pc \notin {"done", "rejected"}
    /\ seenRefs[1] # seenRefs[2]

\* The text up to the end of its first `//` comment, which runs to the end of
\* the line the whole text is on.
RECURSIVE BeforeComment(_)
BeforeComment(text) ==
    IF text = <<>> THEN <<>>
    ELSE IF Head(text) \in {CircularReference, FailedToResolve} THEN <<"any">>
    ELSE <<Head(text)>> \o BeforeComment(Tail(text))

RECURSIVE Unclosed(_)
Unclosed(text) ==
    IF text = <<>> THEN 0
    ELSE (IF Head(text) \in {"{ ", "["} THEN 1 ELSE 0)
         - (IF Head(text) \in {" }", "]"} THEN 1 ELSE 0)
         + Unclosed(Tail(text))

\* C7: the text flattened from an acyclic tree is a syntactically valid type
\* expression: in particular what is not commented out closes every brace and
\* bracket it opens.
C7_WellFormed ==
    \A inv \in Invocations :
        (Acyclic /\ RootDone(inv)) => Unclosed(BeforeComment(Flattened(inv))) = 0

\* C8 as stated: any two calls of getMeta with the same node and depth return
\* the same meta.
C8_Pure ==
    \A r1, r2 \in metaResults : r1.meta = r2.meta

\* C8 amended: getMeta is a function of the node, the depth and the settings
\* iconsEnabled, iconColorsEnabled and readonlyEnabled: two calls that return
\* agree on label, collapsible state and context value, on the description
\* when readonlyEnabled is the same, and on everything when the three settings
\* are the same.
C8_FunctionOfSettings ==
    \A r1, r2 \in metaResults :
        /\ (/\ r1.iconsEnabled = r2.iconsEnabled
            /\ r1.iconColorsEnabled = r2.iconColorsEnabled
            /\ r1.readonlyEnabled = r2.readonlyEnabled) => r1.meta = r2.meta
        /\ (~r1.meta.threw /\ ~r2.meta.threw) =>
              /\ r1.meta.label = r2.meta.label
              /\ r1.meta.collapsibleState = r2.meta.collapsibleState
              /\ r1.meta.contextValue = r2.meta.contextValue
              /\ r1.readonlyEnabled = r2.readonlyEnabled
                    => r1.meta.description = r2.meta.description

\* Two calls for the same node and depth returned different icons.
C8_Witness ==
    \E r1, r2 \in metaResults :
        /\ ~r1.meta.threw /\ ~r2.meta.threw
        /\ r1.meta.icon # r2.meta.icon
        /\ r1.meta.description # Undefined
        /\ MetaInputs[probe[1]].readonly

\* C9: getMeta never raises an error: a node of unknown kind or primitiveKind
\* gets a default icon.
C9_NeverThrows ==
    \A r \in metaResults : ~r.meta.threw

C10_Expansion ==
    \A inv \in Invocations :
        LET ts == tasks[inv]
        IN  /\ \A k \in 1..Len(ts) : Truthy(IdOf(ts, k)) => IdOf(ts, k) \in seenRefs[inv]
            /\ \A k \in ReEntries(ts) :
                  /\ ts[k].pc = "done"
                  /\ ts[k].result = <<CircularReference>>
                  /\ KidsOf(ts, k) = {}
            /\ \A j, k \in 1..Len(ts) :
                  (j # k /\ Truthy(IdOf(ts, j)) /\ IdOf(ts, j) = IdOf(ts, k))
                      => (j \in ReEntries(ts) \/ k \in ReEntries(ts))

\* C10: within one invocation the visited-set only grows and every _id is
\* expanded at most once: the first call reaching an _id has added it before
\* its first await, and every later call reaching it, from a descendant or a
\* sibling subtree, is answered with the sentinel without localizeChildren.
C10_VisitedOnce ==
    /\ []C10_Expansion
    /\ [][\A inv \in Invocations : seenRefs[inv] \subseteq seenRefs'[inv]]_vars

\* Two sibling subtrees reached the same _id; the later call got the sentinel
\* while the earlier one was still awaiting localizeChildren.
C10_Witness ==
    \E inv \in Invocations :
        \E j, k \in 1..Len(tasks[inv]) :
            /\ j < k
            /\ IdOf(tasks[inv], j) = IdOf(tasks[inv], k)
            /\ tasks[inv][j].parent # tasks[inv][k].parent
            /\ tasks[inv][k].parent \notin {0, j}
            /\ tasks[inv][j].pc = "localizeChildren"
            /\ tasks[inv][k].result = <<CircularReference>>

====
